---- MODULE Spec2Model ----
(***************************************************************************)
(* Model of the Starlette blog application (src/app.py): the post store    *)
(* kept in posts.json, the uploads directory, the cookie session and the   *)
(* route handlers login, logout, new_post, edit_post, delete_post and      *)
(* post_detail.                                                            *)
(*                                                                         *)
(* Text is a sequence of one-character strings, so that strip, lower,      *)
(* split and the regular-expression substitutions of slugify act on        *)
(* characters as they do in the program.  A handler is cut into one action *)
(* per stretch of code between two awaits (request.form(), image.read()):  *)
(* the event loop can run another request only at an await.  The requests  *)
(* come from one browser, so they share one session cookie; the server has *)
(* at most two new_post or edit_post requests suspended at a time.         *)
(*                                                                         *)
(* Left out of a post: the five link fields youtube_url .. arxiv_url,      *)
(* which the handlers copy from the form exactly as they copy the title.   *)
(* A timestamp is the integer reading of the clock; isoformat() of a UTC   *)
(* datetime is an order-preserving rendering of it.                        *)
(***************************************************************************)
EXTENDS Integers, Sequences, FiniteSets, TLC

VARIABLES posts, files, session, req, clock, exchange, nreq

vars == <<posts, files, session, req, clock, exchange, nreq>>

(***************************************************************************)
(* Bound of the exploration: the number of requests the server receives.    *)
(***************************************************************************)
MaxRequests == 3

(***************************************************************************)
(* Characters.                                                             *)
(***************************************************************************)
UpperSeq == <<"A","B","C","D","E","F","G","H","I","J","K","L","M",
              "N","O","P","Q","R","S","T","U","V","W","X","Y","Z">>
LowerSeq == <<"a","b","c","d","e","f","g","h","i","j","k","l","m",
              "n","o","p","q","r","s","t","u","v","w","x","y","z">>
Digits == {"0","1","2","3","4","5","6","7","8","9"}
Whitespace == {" ", "\t", "\n"}

Range(s) == {s[i] : i \in DOMAIN s}

\* str.lower() on one character
ToLower(c) ==
    IF \E i \in DOMAIN UpperSeq : UpperSeq[i] = c
    THEN LowerSeq[CHOOSE i \in DOMAIN UpperSeq : UpperSeq[i] = c]
    ELSE c

StrLower(s) == [i \in 1..Len(s) |-> ToLower(s[i])]

RECURSIVE LStrip(_, _)
LStrip(s, set) ==
    IF s # <<>> /\ Head(s) \in set THEN LStrip(Tail(s), set) ELSE s

RECURSIVE RStrip(_, _)
RStrip(s, set) ==
    IF s # <<>> /\ s[Len(s)] \in set
    THEN RStrip(SubSeq(s, 1, Len(s) - 1), set)
    ELSE s

\* str.strip(): with no argument it removes whitespace, with one the given characters
StripChars(s, set) == RStrip(LStrip(s, set), set)
Strip(s) == StripChars(s, Whitespace)

\* re.sub(r"[^...]", "", s): drop the characters outside keep
RECURSIVE Keep(_, _)
Keep(s, keep) ==
    IF s = <<>> THEN <<>>
    ELSE IF Head(s) \in keep THEN <<Head(s)>> \o Keep(Tail(s), keep)
    ELSE Keep(Tail(s), keep)

\* re.sub(r"[set]+", "-", s): every maximal run of characters of set becomes one hyphen
RECURSIVE SubRuns(_, _)
SubRuns(s, set) ==
    IF s = <<>> THEN <<>>
    ELSE IF Head(s) \in set THEN <<"-">> \o SubRuns(LStrip(s, set), set)
    ELSE <<Head(s)>> \o SubRuns(Tail(s), set)

\* the class \w of the re module, on the characters above
WordChars == Range(LowerSeq) \cup Range(UpperSeq) \cup Digits \cup {"_"}

slugify(text) ==
    LET t1 == Strip(StrLower(text))
        t2 == Keep(t1, WordChars \cup Whitespace \cup {"-"})
        t3 == SubRuns(t2, Whitespace \cup {"_"})
        t4 == SubRuns(t3, {"-"})
    IN  StripChars(t4, {"-"})

\* str.split(): the maximal runs of non-whitespace characters
RECURSIVE Split(_)
RECURSIVE Word(_)
Word(s) ==
    IF s = <<>> \/ Head(s) \in Whitespace THEN <<>>
    ELSE <<Head(s)>> \o Word(Tail(s))
Split(s) ==
    LET t == LStrip(s, Whitespace)
    IN  IF t = <<>> THEN <<>>
        ELSE <<Word(t)>> \o Split(SubSeq(t, Len(Word(t)) + 1, Len(t)))

(***************************************************************************)
(* Helpers of src/app.py.                                                  *)
(***************************************************************************)
WordsPerMinute == 200
TeaserLen == 200
HexLen == 6

Max(a, b) == IF a >= b THEN a ELSE b

\* round(n / d) of Python 3: to the nearest integer, a tie to the even one
Round(n, d) ==
    LET q == n \div d
        r == n % d
    IN  IF 2 * r < d THEN q
        ELSE IF 2 * r > d THEN q + 1
        ELSE IF q % 2 = 0 THEN q ELSE q + 1

read_time(body) == Max(1, Round(Len(Split(body)), WordsPerMinute))

make_teaser(body, teaser) ==
    IF Strip(teaser) # <<>> THEN Strip(teaser)
    ELSE IF Len(body) > TeaserLen
         THEN SubSeq(body, 1, TeaserLen) \o <<".", ".", ".">>
         ELSE body

\* Path(name).suffix: from the last dot, unless that dot is the first or the last character
PathSuffix(name) ==
    LET dots == {i \in DOMAIN name : name[i] = "."}
        last == CHOOSE i \in dots : \A j \in dots : j <= i
    IN  IF dots = {} THEN <<>>
        ELSE IF 1 < last /\ last < Len(name) THEN SubSeq(name, last, Len(name))
        ELSE <<>>

\* ext = Path(image.filename).suffix or ".jpg"
ImageExt(name) ==
    IF PathSuffix(name) # <<>> THEN PathSuffix(name) ELSE <<".", "j", "p", "g">>

\* PBKDF2-HMAC-SHA256 as an injective pairing of its two inputs: the digest is
\* opaque to the handlers, which only compare digests for equality
hash_password(password, salt) == <<"pbkdf2_hmac_sha256", password, salt>>

\* a mutant of verify_password: the candidate digest is compared with itself
verify_password_self(password, hashed, salt) ==
    hash_password(password, salt) = hash_password(password, salt)

verify_password(password, hashed, salt) == hash_password(password, salt) = hashed

(***************************************************************************)
(* The Credential Store (users.json), as generate_samples.py writes it.    *)
(***************************************************************************)
AdminName == <<"d", "e", "o", "x", "y", "r", "i", "b", "o">>
AdminPassword == "69Instagram69!"
AdminSalt == "salt0"

load_users ==
    << [username |-> AdminName, display_name |-> "DrFlask",
        password |-> hash_password(AdminPassword, AdminSalt), salt |-> AdminSalt] >>

\* a mutant of get_user: the cookie's username is trusted without the lookup
get_user_trusting(sess) == IF sess = <<>> THEN 0 ELSE 1

\* get_user: the position in users.json of the first record with the session's
\* username, 0 for None
get_user(sess) ==
    IF sess = <<>> THEN 0
    ELSE LET hits == {i \in DOMAIN load_users : load_users[i].username = sess}
         IN  IF hits = {} THEN 0 ELSE CHOOSE i \in hits : \A j \in hits : i <= j

\* a mutant of FindPost: the default of next() is the last post instead of None
FindPost_last(ps, slug) ==
    LET hits == {i \in DOMAIN ps : ps[i].slug = slug}
    IN  IF hits = {} THEN Len(ps) ELSE CHOOSE i \in hits : \A j \in hits : i <= j

\* next((p for p in posts if p["slug"] == slug), None): position of the first match, 0 for None
FindPost(ps, slug) ==
    LET hits == {i \in DOMAIN ps : ps[i].slug = slug}
    IN  IF hits = {} THEN 0 ELSE CHOOSE i \in hits : \A j \in hits : i <= j

Slugs(ps) == {ps[i].slug : i \in DOMAIN ps}

\* uuid.uuid4().hex[:6]: six hexadecimal digits; two of the 16^6 values
UuidHex == {[i \in 1..HexLen |-> d] : d \in {"0", "f"}}

(***************************************************************************)
(* Requests.                                                               *)
(***************************************************************************)
\* the places for the locals of a suspended handler
Slots == {1, 2}

\* a username that a cookie signed earlier still carries but users.json no longer holds
StaleName == <<"g", "o", "n", "e">>

NoForm == [title |-> <<>>, tags |-> <<>>, teaser |-> <<>>, body |-> <<>>, image |-> <<>>]

\* the multipart forms submitted to /new and /edit/{slug}; image is the file name of
\* the uploaded part, empty when no file is sent
Forms ==
    { [title |-> <<"a">>, tags |-> <<>>, teaser |-> <<>>, body |-> <<"x">>, image |-> <<>>],
      [title |-> <<" ", "A", " ">>, tags |-> <<" ", "t", " ", " ", "u">>, teaser |-> <<"s", " ">>,
       body |-> <<" ", "y", " ", "y">>, image |-> <<"p", ".", "p", "n", "g">>],
      [title |-> <<"!">>, tags |-> <<>>, teaser |-> <<>>, body |-> <<"x">>, image |-> <<"p">>],
      [title |-> <<" ">>, tags |-> <<>>, teaser |-> <<>>, body |-> <<"x">>, image |-> <<"p">>],
      [title |-> <<"a">>, tags |-> <<"t">>, teaser |-> <<>>, body |-> <<>>, image |-> <<>>] }

NoCred == [username |-> <<>>, password |-> ""]

Creds ==
    { [username |-> AdminName, password |-> AdminPassword],
      [username |-> <<" ">> \o AdminName, password |-> AdminPassword],
      [username |-> AdminName, password |-> "wrong"],
      [username |-> StaleName, password |-> AdminPassword] }

Methods == {"GET", "POST"}

\* the slugs requested in /post/{slug}, /edit/{slug} and /delete/{slug}; the route
\* pattern matches no empty segment
PathSlugs == (Slugs(posts) \cup {<<"a">>}) \ {<<>>}

\* the locals of a handler suspended at an await
Idle ==
    [pc |-> "idle", user |-> 0, slug |-> <<>>, posts |-> <<>>, form |-> NoForm,
     image_filename |-> <<>>]

\* a handler starts in the first free slot
FreeSlot(k) == req[k].pc = "idle" /\ \A j \in Slots : j < k => req[j].pc # "idle"

\* the last request served and the response sent to it
Exchange(op, status, slug, form, cred) ==
    [op |-> op, status |-> status, slug |-> slug, form |-> form, cred |-> cred]

\* nreq counts the requests received so far; MaxRequests bounds it
Charge ==
    /\ nreq < MaxRequests
    /\ nreq' = nreq + 1

\* datetime.now(timezone.utc): the clock does not run backwards; only the order of
\* two readings matters, so a reading is the last one or the next value
Now == {clock, clock + 1}

Init ==
    /\ posts = <<>>
    /\ files = {}
    /\ session \in {<<>>, AdminName, StaleName}
    /\ req = [k \in Slots |-> Idle]
    /\ clock = 0
    /\ nreq = 0
    /\ exchange = Exchange("startup", "none", <<>>, NoForm, NoCred)

(***************************************************************************)
(* login and logout.                                                       *)
(***************************************************************************)
\* some record of users.json has this username and a digest matching the password
Authenticates(username, password) ==
    \E i \in DOMAIN load_users :
        /\ load_users[i].username = username
        /\ verify_password(password, load_users[i].password, load_users[i].salt)

login(method, cred) ==
    LET username == Strip(cred.username)
    IN  /\ IF method = "GET"
           THEN /\ exchange' = Exchange("login", "login_page", <<>>, NoForm, NoCred)
                /\ UNCHANGED session
           ELSE IF Authenticates(username, cred.password)
           THEN /\ session' = username
                /\ exchange' = Exchange("login", "redirect_home", <<>>, NoForm, cred)
           ELSE /\ exchange' = Exchange("login", "login_error", <<>>, NoForm, cred)
                /\ UNCHANGED session
        /\ Charge
        /\ UNCHANGED <<posts, files, req, clock>>

\* a mutant of logout: the redirect is sent but the session is not cleared
logout_keeping ==
    /\ session' = session
    /\ exchange' = Exchange("logout", "redirect_home", <<>>, NoForm, NoCred)
    /\ Charge
    /\ UNCHANGED <<posts, files, req, clock>>

logout ==
    /\ session' = <<>>
    /\ exchange' = Exchange("logout", "redirect_home", <<>>, NoForm, NoCred)
    /\ Charge
    /\ UNCHANGED <<posts, files, req, clock>>

(***************************************************************************)
(* post_detail.                                                            *)
(***************************************************************************)
post_detail(slug) ==
    /\ exchange' = Exchange("post_detail",
                            IF FindPost(posts, slug) = 0 THEN "redirect_home" ELSE "post",
                            slug, NoForm, NoCred)
    /\ Charge
    /\ UNCHANGED <<posts, files, session, req, clock>>

(***************************************************************************)
(* new_post.                                                               *)
(***************************************************************************)
FormTitle(form) == Strip(form.title)
FormTags(form) == IF Strip(form.tags) # <<>> THEN Split(Strip(form.tags)) ELSE <<>>
FormTeaser(form) == Strip(form.teaser)
FormBody(form) == Strip(form.body)

\* a mutant of Invalid: the fields are tested as submitted, before strip()
Invalid_unstripped(form) == form.title = <<>> \/ form.body = <<>>

\* if not title or not body
Invalid(form) == FormTitle(form) = <<>> \/ FormBody(form) = <<>>

\* slug = slugify(title), with a random suffix when a loaded post has it already
AllocateSlug(title, existing_slugs, hex) ==
    IF slugify(title) \in existing_slugs
    THEN slugify(title) \o <<"-">> \o hex
    ELSE slugify(title)

\* the dict built at lines 268-284
NewPost(form, slug, image_filename, user, now) ==
    [title |-> FormTitle(form),
     slug |-> slug,
     tags |-> FormTags(form),
     teaser |-> make_teaser(FormBody(form), FormTeaser(form)),
     body |-> FormBody(form),
     image |-> image_filename,
     author |-> load_users[user].display_name,
     created |-> now,
     updated |-> now,
     read_time |-> read_time(FormBody(form))]

\* lines 215-227: the guard and the GET page, up to await request.form()
new_post_begin(k, method) ==
    /\ FreeSlot(k)
    /\ IF get_user(session) = 0
       THEN /\ exchange' = Exchange("new_post", "redirect_login", <<>>, NoForm, NoCred)
            /\ UNCHANGED req
       ELSE IF method = "GET"
       THEN /\ exchange' = Exchange("new_post", "editor", <<>>, NoForm, NoCred)
            /\ UNCHANGED req
       ELSE /\ req' = [req EXCEPT ![k] = [Idle EXCEPT !.pc = "new_form",
                                                      !.user = get_user(session)]]
            /\ exchange' = Exchange("new_post", "pending", <<>>, NoForm, NoCred)
    /\ Charge
    /\ UNCHANGED <<posts, files, session, clock>>

\* lines 228-262, and 267-287 when no image is uploaded
new_post_form(k, form, hex, now) ==
    /\ req[k].pc = "new_form"
    /\ IF Invalid(form)
       THEN /\ exchange' = Exchange("new_post", "editor_error", <<>>, form, NoCred)
            /\ req' = [req EXCEPT ![k] = Idle]
            /\ UNCHANGED <<posts, files, clock>>
       ELSE LET slug == AllocateSlug(FormTitle(form), Slugs(posts), hex)
            IN  IF form.image # <<>>
                THEN /\ req' = [req EXCEPT ![k] =
                                  [pc |-> "new_image", user |-> req[k].user, slug |-> slug,
                                   posts |-> posts, form |-> form,
                                   image_filename |-> slug \o ImageExt(form.image)]]
                     /\ exchange' = Exchange("new_post", "pending", <<>>, form, NoCred)
                     /\ UNCHANGED <<posts, files, clock>>
                ELSE /\ posts' = Append(posts, NewPost(form, slug, <<>>, req[k].user, now))
                     /\ clock' = now
                     /\ req' = [req EXCEPT ![k] = Idle]
                     /\ exchange' = Exchange("new_post", "redirect_post", slug, form, NoCred)
                     /\ UNCHANGED files
    /\ UNCHANGED <<session, nreq>>

\* a mutant of new_post_image: the collection is loaded again before the append
new_post_image_reload(k, now) ==
    /\ req[k].pc = "new_image"
    /\ files' = files \cup {req[k].image_filename}
    /\ posts' = Append(posts,
                       NewPost(req[k].form, req[k].slug, req[k].image_filename,
                               req[k].user, now))
    /\ clock' = now
    /\ req' = [req EXCEPT ![k] = Idle]
    /\ exchange' = Exchange("new_post", "redirect_post", req[k].slug, req[k].form, NoCred)
    /\ UNCHANGED <<session, nreq>>

\* lines 263-287: after await image.read()
new_post_image(k, now) ==
    /\ req[k].pc = "new_image"
    /\ files' = files \cup {req[k].image_filename}
    /\ posts' = Append(req[k].posts,
                       NewPost(req[k].form, req[k].slug, req[k].image_filename,
                               req[k].user, now))
    /\ clock' = now
    /\ req' = [req EXCEPT ![k] = Idle]
    /\ exchange' = Exchange("new_post", "redirect_post", req[k].slug, req[k].form, NoCred)
    /\ UNCHANGED <<session, nreq>>

(***************************************************************************)
(* edit_post.                                                              *)
(***************************************************************************)
\* a mutant of EditPost: the slug is allocated again from the new title, with the
\* post's own slug counted as taken
EditPost_realloc(post, form, now) ==
    [post EXCEPT !.title = FormTitle(form),
                 !.slug = AllocateSlug(FormTitle(form), {post.slug},
                                       [i \in 1..HexLen |-> "0"]),
                 !.tags = FormTags(form),
                 !.teaser = make_teaser(FormBody(form), FormTeaser(form)),
                 !.body = FormBody(form),
                 !.updated = now,
                 !.read_time = read_time(FormBody(form))]

\* a mutant of EditPost: the slug is derived again from the new title
EditPost_reslug(post, form, now) ==
    [post EXCEPT !.title = FormTitle(form),
                 !.slug = slugify(FormTitle(form)),
                 !.tags = FormTags(form),
                 !.teaser = make_teaser(FormBody(form), FormTeaser(form)),
                 !.body = FormBody(form),
                 !.updated = now,
                 !.read_time = read_time(FormBody(form))]

\* a mutant of EditPost: the time is written to created instead of updated
EditPost_restamp(post, form, now) ==
    [post EXCEPT !.title = FormTitle(form),
                 !.tags = FormTags(form),
                 !.teaser = make_teaser(FormBody(form), FormTeaser(form)),
                 !.body = FormBody(form),
                 !.created = now,
                 !.read_time = read_time(FormBody(form))]

\* lines 334-344: the fields the handler assigns on the loaded post
EditPost(post, form, now) ==
    [post EXCEPT !.title = FormTitle(form),
                 !.tags = FormTags(form),
                 !.teaser = make_teaser(FormBody(form), FormTeaser(form)),
                 !.body = FormBody(form),
                 !.updated = now,
                 !.read_time = read_time(FormBody(form))]

\* lines 291-309: the guard, the load, the lookup and the GET page, up to
\* await request.form()
edit_post_begin(k, slug, method) ==
    /\ FreeSlot(k)
    /\ IF get_user(session) = 0
       THEN /\ exchange' = Exchange("edit_post", "redirect_login", slug, NoForm, NoCred)
            /\ UNCHANGED req
       ELSE IF FindPost(posts, slug) = 0
       THEN /\ exchange' = Exchange("edit_post", "redirect_home", slug, NoForm, NoCred)
            /\ UNCHANGED req
       ELSE IF method = "GET"
       THEN /\ exchange' = Exchange("edit_post", "editor", slug, NoForm, NoCred)
            /\ UNCHANGED req
       ELSE /\ req' = [req EXCEPT ![k] = [Idle EXCEPT !.pc = "edit_form",
                                                      !.user = get_user(session),
                                                      !.slug = slug,
                                                      !.posts = posts]]
            /\ exchange' = Exchange("edit_post", "pending", slug, NoForm, NoCred)
    /\ Charge
    /\ UNCHANGED <<posts, files, session, clock>>

\* lines 310-350, and 356-357 when no image is uploaded
edit_post_form(k, form, now) ==
    /\ req[k].pc = "edit_form"
    /\ IF Invalid(form)
       THEN /\ exchange' = Exchange("edit_post", "editor_error", req[k].slug, form, NoCred)
            /\ req' = [req EXCEPT ![k] = Idle]
            /\ UNCHANGED <<posts, files, clock>>
       ELSE LET i == FindPost(req[k].posts, req[k].slug)
                edited == [req[k].posts EXCEPT ![i] = EditPost(req[k].posts[i], form, now)]
            IN  /\ clock' = now
                /\ IF form.image # <<>>
                   THEN /\ req' = [req EXCEPT ![k] =
                                     [req[k] EXCEPT !.pc = "edit_image",
                                                    !.posts = edited,
                                                    !.form = form,
                                                    !.image_filename =
                                                        edited[i].slug \o ImageExt(form.image)]]
                        /\ exchange' = Exchange("edit_post", "pending", req[k].slug,
                                                form, NoCred)
                        /\ UNCHANGED <<posts, files>>
                   ELSE /\ posts' = edited
                        /\ req' = [req EXCEPT ![k] = Idle]
                        /\ exchange' = Exchange("edit_post", "redirect_post",
                                                edited[i].slug, form, NoCred)
                        /\ UNCHANGED files
    /\ UNCHANGED <<session, nreq>>

\* lines 351-357: after await image.read()
edit_post_image(k) ==
    /\ req[k].pc = "edit_image"
    /\ LET i == FindPost(req[k].posts, req[k].slug)
       IN  /\ files' = files \cup {req[k].image_filename}
           /\ posts' = [req[k].posts EXCEPT ![i].image = req[k].image_filename]
           /\ exchange' = Exchange("edit_post", "redirect_post", req[k].posts[i].slug,
                                   req[k].form, NoCred)
    /\ req' = [req EXCEPT ![k] = Idle]
    /\ UNCHANGED <<session, clock, nreq>>

(***************************************************************************)
(* delete_post.                                                            *)
(***************************************************************************)
\* a mutant of Without: the comparison is inverted, the posts of the slug are kept
Without_keeping(ps, slug) == SelectSeq(ps, LAMBDA p : p.slug = slug)

\* [p for p in posts if p["slug"] != slug]
Without(ps, slug) == SelectSeq(ps, LAMBDA p : p.slug # slug)

\* a mutant of delete_post: no test that a post was found, and the image of the
\* last post is removed when none was
delete_post_unguarded(slug) ==
    /\ IF get_user(session) = 0
       THEN /\ exchange' = Exchange("delete_post", "redirect_login", slug, NoForm, NoCred)
            /\ UNCHANGED <<posts, files>>
       ELSE /\ exchange' = Exchange("delete_post", "redirect_home", slug, NoForm, NoCred)
            /\ IF posts # <<>>
               THEN /\ files' = files \ {posts[IF FindPost(posts, slug) # 0
                                                THEN FindPost(posts, slug)
                                                ELSE Len(posts)].image}
                    /\ posts' = Without(posts, slug)
               ELSE UNCHANGED <<posts, files>>
    /\ Charge
    /\ UNCHANGED <<session, req, clock>>

\* a mutant of delete_post: the post is removed but its image is not unlinked
delete_post_keeping_image(slug) ==
    /\ IF get_user(session) = 0
       THEN /\ exchange' = Exchange("delete_post", "redirect_login", slug, NoForm, NoCred)
            /\ UNCHANGED <<posts, files>>
       ELSE /\ exchange' = Exchange("delete_post", "redirect_home", slug, NoForm, NoCred)
            /\ posts' = Without(posts, slug)
            /\ UNCHANGED files
    /\ Charge
    /\ UNCHANGED <<session, req, clock>>

\* lines 361-377; the handler has no await
delete_post(slug) ==
    /\ IF get_user(session) = 0
       THEN /\ exchange' = Exchange("delete_post", "redirect_login", slug, NoForm, NoCred)
            /\ UNCHANGED <<posts, files>>
       ELSE /\ exchange' = Exchange("delete_post", "redirect_home", slug, NoForm, NoCred)
            /\ IF FindPost(posts, slug) # 0
               THEN /\ files' = files \ {posts[FindPost(posts, slug)].image}
                    /\ posts' = Without(posts, slug)
               ELSE UNCHANGED <<posts, files>>
    /\ Charge
    /\ UNCHANGED <<session, req, clock>>

(***************************************************************************)
(* The application: any request may arrive at any time.                    *)
(***************************************************************************)
Next ==
    \/ \E method \in Methods, cred \in Creds : login(method, cred)
    \/ logout
    \/ \E slug \in PathSlugs : post_detail(slug)
    \/ \E k \in Slots, method \in Methods : new_post_begin(k, method)
    \/ \E k \in Slots, form \in Forms, hex \in UuidHex, now \in Now :
           new_post_form(k, form, hex, now)
    \/ \E k \in Slots, now \in Now : new_post_image(k, now)
    \/ \E k \in Slots, slug \in PathSlugs, method \in Methods : edit_post_begin(k, slug, method)
    \/ \E k \in Slots, form \in Forms, now \in Now : edit_post_form(k, form, now)
    \/ \E k \in Slots : edit_post_image(k)
    \/ \E slug \in PathSlugs : delete_post(slug)

Spec == Init /\ [][Next]_vars

(***************************************************************************)
(* Properties.                                                             *)
(***************************************************************************)
Mutating == {"new_post", "edit_post", "delete_post"}

\* this step serves a newly arrived request for handler op
Arrives(op) == nreq' = nreq + 1 /\ exchange'.op = op

\* C1: in every reachable state no two posts of the persisted collection have the
\* same slug (so the slug a create assigns differs from every slug already there).
C1_SlugsUnique ==
    \A i, j \in DOMAIN posts : i # j => posts[i].slug # posts[j].slug

\* C2: the slug stored on a created post is never the empty string.
C2_SlugNonEmpty ==
    \A i \in DOMAIN posts : posts[i].slug # <<>>

LowerWordChars == Range(LowerSeq) \cup Digits \cup {"_"}

WellFormedSlug(s) ==
    /\ \A i \in DOMAIN s : s[i] \in LowerWordChars \cup {"-"}
    /\ s # <<>> => s[1] # "-" /\ s[Len(s)] # "-"
    /\ \A i \in 1..(Len(s) - 1) : ~(s[i] = "-" /\ s[i + 1] = "-")

HelloWorld ==
    <<"H", "e", "l", "l", "o", ",", " ", "W", "o", "r", "l", "d", "!", " ", "2", "0", "2", "4">>

\* C3: a slug assigned by create is made of lowercase word characters and hyphens,
\* has no leading, trailing or doubled hyphen, and is slugify(title), the same on
\* every call, when that is not taken; "Hello, World! 2024" gives "hello-world-2024".
C3_SlugWellFormed ==
    /\ \A i \in DOMAIN posts : WellFormedSlug(posts[i].slug)
    /\ (exchange.op = "new_post" /\ exchange.status = "redirect_post")
           => \/ exchange.slug = slugify(FormTitle(exchange.form))
              \/ \E hex \in UuidHex :
                     exchange.slug = slugify(FormTitle(exchange.form)) \o <<"-">> \o hex
    /\ slugify(HelloWorld)
           = <<"h", "e", "l", "l", "o", "-", "w", "o", "r", "l", "d", "-", "2", "0", "2", "4">>

\* the session names no record of the Credential Store
Anonymous(sess) == sess = <<>> \/ \A i \in DOMAIN load_users : load_users[i].username # sess

\* C4: a new_post, edit_post or delete_post request arriving with a session that has
\* no username, or a username the Credential Store does not hold, is sent to the
\* login page and leaves the post collection and the uploaded files unchanged.
C4_MutationsGated ==
    [][ (Anonymous(session) /\ \E op \in Mutating : Arrives(op))
            => /\ exchange'.status = "redirect_login"
               /\ posts' = posts
               /\ files' = files
               /\ req' = req ]_vars

C4_Witness ==
    /\ Anonymous(session)
    /\ exchange.op = "edit_post"
    /\ exchange.status = "redirect_login"
    /\ posts # <<>>
    /\ files # {}

\* C5: a login POST binds the session to the username exactly when some record of
\* the Credential Store has that username and a stored digest equal to the digest of
\* the given password under the stored salt; otherwise it answers with the error
\* page and leaves the session as it was.
C5_LoginIffCredentials ==
    [][ (Arrives("login") /\ exchange'.status # "login_page")
            => LET username == Strip(exchange'.cred.username)
                   held == \E i \in DOMAIN load_users :
                               /\ load_users[i].username = username
                               /\ load_users[i].password =
                                      hash_password(exchange'.cred.password,
                                                    load_users[i].salt)
               IN  IF held
                   THEN session' = username /\ exchange'.status = "redirect_home"
                   ELSE session' = session /\ exchange'.status = "login_error" ]_vars

C5_Witness ==
    /\ exchange.op = "login"
    /\ exchange.status = "redirect_home"
    /\ session = AdminName
    /\ nreq = 2

\* C6: logout empties the session; an emptied session resolves to no user, gets a
\* username again only by a successful login, and until then every new_post,
\* edit_post and delete_post request made with it is sent to the login page and
\* changes neither the post collection nor the uploaded files.
C6_LogoutInvalidates ==
    [][ /\ Arrives("logout") => session' = <<>>
        /\ session = <<>>
               => /\ get_user(session) = 0
                  /\ session' # <<>>
                         => Arrives("login") /\ exchange'.status = "redirect_home"
                  /\ (\E op \in Mutating : Arrives(op))
                         => /\ exchange'.status = "redirect_login"
                            /\ posts' = posts
                            /\ files' = files
                            /\ req' = req ]_vars

C6_Witness ==
    /\ session = <<>>
    /\ exchange.op = "delete_post"
    /\ exchange.status = "redirect_login"
    /\ exchange.slug \in Slugs(posts)

\* this step completes a create
Created == exchange'.op = "new_post" /\ exchange'.status = "redirect_post"

\* C7: right after a successful create, the first post found under the returned
\* slug has the title, body and tags of the submitted form, as the handler read
\* them, and its created timestamp equals its updated timestamp.
C7_CreateThenFind ==
    [][ Created
            => LET i == FindPost(posts', exchange'.slug)
               IN  /\ i # 0
                   /\ posts'[i].title = FormTitle(exchange'.form)
                   /\ posts'[i].body = FormBody(exchange'.form)
                   /\ posts'[i].tags = FormTags(exchange'.form)
                   /\ posts'[i].created = posts'[i].updated ]_vars

\* C8: a successful update saves the post it loaded with the same slug and created
\* timestamp and with an updated timestamp not before the one it loaded, and it
\* changes the slug of no post of the collection it loaded.
C8_UpdatePreserves ==
    [][ \A k \in Slots :
          LET i == FindPost(req[k].posts, req[k].slug)
              loaded == req[k].posts
              saved == IF req'[k].pc = "edit_image" THEN req'[k].posts ELSE posts'
              done == req[k].pc \in {"edit_form", "edit_image"}
                          /\ req'[k] # req[k]
                          /\ exchange'.status \in {"pending", "redirect_post"}
          IN  done => /\ Len(saved) = Len(loaded)
                      /\ \A j \in DOMAIN loaded : saved[j].slug = loaded[j].slug
                      /\ saved[i].slug = req[k].slug
                      /\ saved[i].created = loaded[i].created
                      /\ saved[i].updated >= loaded[i].updated
                      /\ req'[k].pc = "idle" => exchange'.slug = req[k].slug ]_vars

C8_Witness ==
    /\ exchange.op = "edit_post"
    /\ exchange.status = "redirect_post"
    /\ \E i \in DOMAIN posts :
           /\ posts[i].slug = exchange.slug
           /\ posts[i].title = FormTitle(exchange.form)
           /\ posts[i].updated > posts[i].created
           /\ slugify(posts[i].title) # posts[i].slug

\* C9: in every reachable state every post of the persisted collection has
\* created <= updated.
C9_CreatedBeforeUpdated ==
    \A i \in DOMAIN posts : posts[i].created <= posts[i].updated

C9_Witness ==
    \E i \in DOMAIN posts : posts[i].created >= 1 /\ posts[i].created < posts[i].updated

\* C10: an authorized delete of a slug no post has changes neither the post
\* collection nor the uploaded files and redirects to the home page like any other
\* delete; after a delete no post has the slug, so a second delete changes nothing.
C10_DeleteUnknownNoOp ==
    [][ (Arrives("delete_post") /\ ~Anonymous(session))
            => /\ exchange'.status = "redirect_home"
               /\ exchange'.slug \notin Slugs(posts')
               /\ exchange'.slug \notin Slugs(posts)
                      => posts' = posts /\ files' = files ]_vars

C10_Witness ==
    /\ exchange.op = "delete_post"
    /\ exchange.status = "redirect_home"
    /\ nreq = 2
    /\ posts # <<>>
    /\ files # {}

\* C11: an authorized delete of a slug some post has leaves no post with that slug
\* in the persisted collection, and the image file that the post found under the
\* slug referenced, if any, is no longer in the uploads directory.
C11_DeleteRemoves ==
    [][ (Arrives("delete_post") /\ ~Anonymous(session)
             /\ FindPost(posts, exchange'.slug) # 0)
            => LET post == posts[FindPost(posts, exchange'.slug)]
               IN  /\ exchange'.slug \notin Slugs(posts')
                   /\ Len(posts') < Len(posts)
                   /\ post.image # <<>> => post.image \notin files' ]_vars

\* a suspended edit still holds the deleted post, which had an image
C11_Witness ==
    /\ exchange.op = "delete_post"
    /\ exchange.status = "redirect_home"
    /\ exchange.slug \notin Slugs(posts)
    /\ \E k \in Slots :
           /\ req[k].pc = "edit_form"
           /\ req[k].slug = exchange.slug
           /\ \E i \in DOMAIN req[k].posts :
                  /\ req[k].posts[i].slug = exchange.slug
                  /\ req[k].posts[i].image # <<>>
                  /\ req[k].posts[i].image \notin files

\* C12: a create or update whose title or body is empty after trimming answers with
\* the editor page and its error, and changes neither the post collection nor the
\* uploaded files; a form with both fields non-empty gets no such error.
C12_ValidationRejects ==
    [][ \A k \in Slots :
          (req[k].pc \in {"new_form", "edit_form"} /\ req'[k] # req[k])
              => LET form == exchange'.form
                     empty == Strip(form.title) = <<>> \/ Strip(form.body) = <<>>
                 IN  IF empty
                     THEN /\ exchange'.status = "editor_error"
                          /\ posts' = posts
                          /\ files' = files
                          /\ req'[k].pc = "idle"
                     ELSE exchange'.status # "editor_error" ]_vars

C12_Witness ==
    /\ exchange.op = "edit_post"
    /\ exchange.status = "editor_error"
    /\ Strip(exchange.form.title) = <<>>
    /\ exchange.form.image # <<>>
    /\ exchange.slug \in Slugs(posts)

\* C13: an authorized update of a slug no post has is answered with the redirect to
\* the home page; it starts no write, so it creates no post, changes no post,
\* writes no image file and leaves the persisted collection as it was.
C13_UpdateUnknownNotFound ==
    [][ (Arrives("edit_post") /\ ~Anonymous(session)
             /\ exchange'.slug \notin Slugs(posts))
            => /\ exchange'.status = "redirect_home"
               /\ posts' = posts
               /\ files' = files
               /\ req' = req ]_vars

C13_Witness ==
    /\ exchange.op = "edit_post"
    /\ exchange.status = "redirect_home"
    /\ exchange.slug \notin Slugs(posts)
    /\ posts # <<>>
    /\ files # {}

\* C14: a handler resumed after an await saves the collection it loaded before
\* the await with its own change applied, whatever was persisted meanwhile: the
\* saved list is the loaded list with one post appended (new_post) or with the
\* one post of the request's slug replaced (edit_post).  The write of a request
\* that saved in between is therefore overwritten and the later write wins.
Saves(k) ==
    /\ req[k].pc \in {"new_image", "edit_form", "edit_image"}
    /\ req'[k].pc = "idle"
    /\ exchange'.status = "redirect_post"

C14_LaterWriteWins ==
    [][ \A k \in Slots :
          Saves(k)
              => LET loaded == req[k].posts
                 IN  IF req[k].pc = "new_image"
                     THEN /\ Len(posts') = Len(loaded) + 1
                          /\ \A j \in DOMAIN loaded : posts'[j] = loaded[j]
                          /\ posts'[Len(posts')].slug = req[k].slug
                     ELSE /\ Len(posts') = Len(loaded)
                          /\ \A j \in DOMAIN loaded :
                                j # FindPost(loaded, req[k].slug) => posts'[j] = loaded[j]
                          /\ posts'[FindPost(loaded, req[k].slug)].slug = req[k].slug ]_vars

\* two new_post requests overlapped: both images were written, only the post of
\* the request that saved last is persisted
C14_Witness ==
    /\ nreq = 2
    /\ \A k \in Slots : req[k].pc = "idle"
    /\ exchange.op = "new_post" /\ exchange.status = "redirect_post"
    /\ Len(posts) = 1
    /\ Cardinality(files) = 2

\* C15, as claimed: once delete_post for a slug has completed, the persisted
\* collection holds that slug again only through a new_post that creates it.
\* Stated for the step that follows the delete.
C15_DeletedStaysDeleted ==
    [][ (/\ exchange.op = "delete_post"
         /\ exchange.status = "redirect_home"
         /\ exchange.slug \in Slugs(posts'))
            => Created /\ exchange'.slug = exchange.slug ]_vars

\* C15, amended: a slug absent from the persisted collection (deleted, for one)
\* is in it again only through a new_post that creates it, or through the save
\* of a new_post or edit_post that had loaded the collection while it held the
\* slug: a request in flight when the delete ran brings the post back.
C15_ReturnsOnlyBySave ==
    [][ \A s \in Slugs(posts') \ Slugs(posts) :
          \/ Created /\ exchange'.slug = s
          \/ \E k \in Slots : Saves(k) /\ s \in Slugs(req[k].posts) ]_vars

\* an edit_post without upload has saved a post whose image file is gone: the
\* post was deleted while the edit was in flight and is persisted again
C15_Witness ==
    /\ exchange.op = "edit_post" /\ exchange.status = "redirect_post"
    /\ exchange.form.image = <<>>
    /\ \A k \in Slots : req[k].pc = "idle"
    /\ \E i \in DOMAIN posts :
          /\ posts[i].slug = exchange.slug
          /\ posts[i].image # <<>>
          /\ posts[i].image \notin files

\* C16: image references never dangle: in every reachable state every post of the
\* persisted collection with a non-empty image field names a file that exists in
\* the uploads directory.
C16_ImagesExist ==
    \A i \in DOMAIN posts : posts[i].image # <<>> => posts[i].image \in files

\* C17: when requests do not overlap (the persisted collection is still the one
\* the handler loaded), a successful create appends exactly one post at the end,
\* a successful update changes only the post of its slug, and a delete removes
\* only posts of its slug; every other post is unchanged, in the same order.
Others(ps, slug) == SelectSeq(ps, LAMBDA p : p.slug # slug)

NotOverlapped(k) ==
    LET loaded == req[k].posts
        i == FindPost(loaded, req[k].slug)
    IN  CASE req[k].pc = "new_form" -> TRUE
          [] req[k].pc \in {"new_image", "edit_form"} -> loaded = posts
          [] req[k].pc = "edit_image" ->
                 /\ Len(loaded) = Len(posts)
                 /\ \A j \in DOMAIN posts : j # i => loaded[j] = posts[j]
                 /\ posts[i].slug = req[k].slug
          [] OTHER -> FALSE

C17_TouchesOnlyTarget ==
    [][ /\ \A k \in Slots :
             (/\ NotOverlapped(k)
              /\ req'[k].pc = "idle"
              /\ exchange'.status = "redirect_post")
                 => IF req[k].pc \in {"new_form", "new_image"}
                    THEN /\ Len(posts') = Len(posts) + 1
                         /\ SubSeq(posts', 1, Len(posts)) = posts
                    ELSE /\ Len(posts') = Len(posts)
                         /\ \A j \in DOMAIN posts :
                               posts[j].slug # req[k].slug => posts'[j] = posts[j]
        /\ Arrives("delete_post")
              => /\ Others(posts', exchange'.slug) = Others(posts, exchange'.slug)
                 /\ posts' \in {posts, Others(posts, exchange'.slug)} ]_vars

\* a delete has removed the post of its slug and left the other post, created
\* after it under the same title, in place
C17_Witness ==
    /\ exchange.op = "delete_post" /\ exchange.status = "redirect_home"
    /\ \A k \in Slots : req[k].pc = "idle"
    /\ Len(posts) = 1
    /\ posts[1].slug # exchange.slug
    /\ Len(posts[1].slug) > Len(exchange.slug)
    /\ SubSeq(posts[1].slug, 1, Len(exchange.slug)) = exchange.slug

====
